---- MODULE Spec2Model ----
(***************************************************************************)
(* KimhutCafe (src/app.py): the session cart, the priced line items        *)
(* computed from it, and the Telegram / e-mail notifications sent by the   *)
(* checkout and contact handlers.                                          *)
(*                                                                         *)
(* Strings that the code parses (product ids, quantities, form keys, the   *)
(* contact e-mail) are sequences of one-character strings, so that int(),  *)
(* str.startswith, str.replace and str.strip are computed, not assumed.    *)
(* Amounts of money are integers in thousandths of a dollar.               *)
(*                                                                         *)
(* Spec handles one request at a time, SpecMoney applies _money to a range *)
(* of amounts, SpecRace overlaps two requests of one session.              *)
(***************************************************************************)
EXTENDS Integers, Sequences, FiniteSets, TLC

VARIABLES
    cart,      \* session["cart"]: product-id string -> integer quantity
    config,    \* app.config: which of the three settings are set
    pc,        \* position of the request being handled ("idle" between requests)
    req,       \* the request being handled: handler, method and form fields
    items,     \* checkout's local `items`: cart key -> line item
    subtotal,  \* checkout's local `subtotal`
    tg_ok,     \* value returned by this request's send_telegram call
    mail_ok,   \* value returned by send_invoice_email / send_contact_ack
    pushNet,   \* what requests.post did in this request
    mailNet,   \* what mail.send did in this request
    log,       \* calls made by this request, in order
    resp,      \* the response of the handler that has just finished
    amounts,   \* pricing runs: an amount and the results of rounding it again
    inflight,  \* overlapping requests of one session: position and local cart
    writes     \* overlapping requests: who stored the session cart, in order

vars == <<cart, config, pc, req, items, subtotal, tg_ok, mail_ok,
          pushNet, mailNet, log, resp, amounts, inflight, writes>>

\* the variables that only the pricing runs and the overlapping requests use
aside == <<amounts, inflight, writes>>

----------------------------------------------------------------------------
(* Bounds of the model *)

\* add_to_cart is explored while the quantity it stores stays in -MaxQty..MaxQty
MaxQty == 1

\* the pricing runs round the amounts -MaxAmount..MaxAmount (thousandths)
MaxAmount == 10010

----------------------------------------------------------------------------
(* Inputs *)

\* product_id values a client posts: two catalog ids (one written with a
\* leading zero), a numeric id missing from the catalog, a non-numeric id
Pids == { <<"1">>, <<"0", "2">>, <<"9">>, <<"a">> }

\* raw quantity strings a client posts
RawVals == { <<"0">>, <<"2">>, <<"-", "1">>, <<"a">> }

\* the form key update_cart looks for, as one token
QtyPrefix == "qty_"

\* names of the form fields a client posts to /update-cart
FormKeys == { <<QtyPrefix>> \o p : p \in Pids } \cup { <<"n", "o", "t", "e">> }

\* raw e-mail fields a client posts to /contact
RawEmails == { <<>>, <<" ">>, <<" ", "a@b.com">> }

\* the products.json catalog: prices in thousandths of a dollar
PRODUCTS ==
    << [id |-> 1, name |-> "Latte", price |-> 4505],
       [id |-> 2, name |-> "Mocha", price |-> 1005] >>

\* outcomes of requests.post: an exception, or a response with a status code
PostOutcomes ==
    { [attempted |-> TRUE, raised |-> TRUE, status |-> 0] }
    \cup { [attempted |-> TRUE, raised |-> FALSE, status |-> s] :
             s \in {200, 304, 404, 500} }

\* requests.post was not called
NoPost == [attempted |-> FALSE, raised |-> FALSE, status |-> 0]

\* outcomes of mail.send: it returns or it raises
MailOutcomes == { "sent", "raised" }

----------------------------------------------------------------------------
(* Python built-ins used by the handlers *)

DigitChars == { "0", "1", "2", "3", "4", "5", "6", "7", "8", "9" }

DigitVal(c) ==
    CASE c = "0" -> 0 [] c = "1" -> 1 [] c = "2" -> 2 [] c = "3" -> 3
      [] c = "4" -> 4 [] c = "5" -> 5 [] c = "6" -> 6 [] c = "7" -> 7
      [] c = "8" -> 8 [] c = "9" -> 9

\* the digits of s after an optional sign
IntBody(s) == IF Len(s) > 0 /\ s[1] \in {"-", "+"} THEN Tail(s) ELSE s

\* int(s) returns (it raises ValueError otherwise)
IntOk(s) ==
    /\ Len(IntBody(s)) > 0
    /\ \A i \in 1..Len(IntBody(s)) : IntBody(s)[i] \in DigitChars

RECURSIVE DigitsValue(_)
DigitsValue(d) ==
    IF Len(d) = 0 THEN 0
    ELSE 10 * DigitsValue(SubSeq(d, 1, Len(d) - 1)) + DigitVal(d[Len(d)])

\* the value of int(s) when it returns
IntOf(s) ==
    IF Len(s) > 0 /\ s[1] = "-" THEN 0 - DigitsValue(IntBody(s))
    ELSE DigitsValue(IntBody(s))

\* max(0, n)
Max0(n) == IF n > 0 THEN n ELSE 0

\* key.startswith("qty_")
StartsWithQty(key) == Len(key) > 0 /\ key[1] = QtyPrefix

\* key.replace("qty_", "")
StripQty(key) == SelectSeq(key, LAMBDA c : c # QtyPrefix)

RECURSIVE LStrip(_)
LStrip(s) == IF Len(s) > 0 /\ s[1] = " " THEN LStrip(Tail(s)) ELSE s

RECURSIVE RStrip(_)
RStrip(s) ==
    IF Len(s) > 0 /\ s[Len(s)] = " " THEN RStrip(SubSeq(s, 1, Len(s) - 1)) ELSE s

\* s.strip()
Strip(s) == RStrip(LStrip(s))

\* d[k] = v on a copy of d
Put(d, k, v) == [x \in DOMAIN d \cup {k} |-> IF x = k THEN v ELSE d[x]]

\* {}
EmptyCart == [x \in {} |-> 0]

DigitChar(d) ==
    CASE d = 0 -> "0" [] d = 1 -> "1" [] d = 2 -> "2" [] d = 3 -> "3"
      [] d = 4 -> "4" [] d = 5 -> "5" [] d = 6 -> "6" [] d = 7 -> "7"
      [] d = 8 -> "8" [] d = 9 -> "9"

RECURSIVE NatStr(_)
NatStr(n) ==
    IF n < 10 THEN <<DigitChar(n)>>
    ELSE NatStr(n \div 10) \o <<DigitChar(n % 10)>>

\* str(n) of an integer
Str(n) == IF n < 0 THEN <<"-">> \o NatStr(0 - n) ELSE NatStr(n)

\* s.isdigit()
IsDigit(s) == Len(s) > 0 /\ \A i \in 1..Len(s) : s[i] \in DigitChars

RECURSIVE SumValues(_)
\* sum(d.values()) of a dictionary of integers
SumValues(d) ==
    IF DOMAIN d = {} THEN 0
    ELSE LET k == CHOOSE k \in DOMAIN d : TRUE
         IN  d[k] + SumValues([x \in DOMAIN d \ {k} |-> d[x]])

----------------------------------------------------------------------------
(* Helpers of create_app *)

\* variant of _money: quantize with its default rounding, ROUND_HALF_EVEN
_money_half_even(x) ==
    LET a == IF x >= 0 THEN x ELSE 0 - x
        f == a \div 10
        r == a % 10
        q == IF r > 5 \/ (r = 5 /\ f % 2 = 1) THEN (f + 1) * 10 ELSE f * 10
    IN  IF x >= 0 THEN q ELSE 0 - q

\* Decimal(x).quantize(Decimal("0.01"), rounding=ROUND_HALF_UP): x in
\* thousandths, rounded to a whole number of cents, ties away from zero
_money(x) ==
    IF x >= 0 THEN ((x + 5) \div 10) * 10
    ELSE 0 - (((0 - x) + 5) \div 10) * 10

\* next((p for p in PRODUCTS if p["id"] == n), None): the index of the first
\* product whose id is n, 0 for None
FindProduct(n) ==
    LET hits == { i \in 1..Len(PRODUCTS) : PRODUCTS[i].id = n }
    IN  IF hits = {} THEN 0 ELSE CHOOSE i \in hits : \A j \in hits : i <= j

\* the dictionary appended to `items` for one cart entry
LineItem(pid, qty) ==
    LET product == PRODUCTS[FindProduct(IntOf(pid))]
    IN  [ id         |-> product.id,
          name       |-> product.name,
          price      |-> _money(product.price),
          qty        |-> qty,
          line_total |-> _money(product.price * qty) ]

RECURSIVE SumLineTotals(_)
SumLineTotals(its) ==
    IF DOMAIN its = {} THEN 0
    ELSE LET k == CHOOSE k \in DOMAIN its : TRUE
         IN  its[k].line_total
               + SumLineTotals([x \in DOMAIN its \ {k} |-> its[x]])

\* variant of cart_items: the subtotal is rounded from the unrounded products
cart_items_raw_sum(c) ==
    IF \E pid \in DOMAIN c : ~IntOk(pid)
    THEN [raised |-> TRUE, items |-> <<>>, subtotal |-> 0]
    ELSE LET known == { pid \in DOMAIN c : FindProduct(IntOf(pid)) # 0 }
             its   == [pid \in known |-> LineItem(pid, c[pid])]
             raw   == [pid \in known |->
                         [line_total |->
                            PRODUCTS[FindProduct(IntOf(pid))].price * c[pid]]]
         IN  [raised |-> FALSE, items |-> its,
              subtotal |-> _money(SumLineTotals(raw))]

\* cart_items(): int(pid) raises for a key that is not an integer literal;
\* otherwise one line item per key whose id is in the catalog
cart_items(c) ==
    IF \E pid \in DOMAIN c : ~IntOk(pid)
    THEN [raised |-> TRUE, items |-> <<>>, subtotal |-> 0]
    ELSE LET known == { pid \in DOMAIN c : FindProduct(IntOf(pid)) # 0 }
             its   == [pid \in known |-> LineItem(pid, c[pid])]
         IN  [raised |-> FALSE, items |-> its,
              subtotal |-> _money(SumLineTotals(its))]

\* variant of TelegramConfigured: only the token is tested
TelegramConfiguredTokenOnly == config.TELEGRAM_BOT_TOKEN

\* `not token or not chat_id`
TelegramConfigured ==
    config.TELEGRAM_BOT_TOKEN /\ config.TELEGRAM_CHAT_ID

\* r.ok of requests: the status is not a 4xx or 5xx
r_ok(status) == ~(400 <= status /\ status < 600)

\* the value send_telegram returns, given what requests.post did
send_telegram(net) ==
    IF ~TelegramConfigured THEN FALSE
    ELSE IF net.raised THEN FALSE
    ELSE r_ok(net.status)

\* the value send_invoice_email returns, given what mail.send did
send_invoice_email(net) ==
    IF ~config.MAIL_USERNAME THEN FALSE
    ELSE net = "sent"

\* the value send_contact_ack returns, given what mail.send did
send_contact_ack(to_email, net) ==
    IF Len(to_email) = 0 THEN FALSE
    ELSE IF ~config.MAIL_USERNAME THEN FALSE
    ELSE net = "sent"

----------------------------------------------------------------------------
(* Requests and responses *)

NoForm == [k \in {} |-> <<>>]

NoReq == [handler |-> "none", method |-> "none", product_id |-> <<>>,
          qty |-> <<>>, xhr |-> FALSE, form |-> NoForm, email |-> <<>>]

Request(h, m) == [NoReq EXCEPT !.handler = h, !.method = m]

NoResp == [status |-> 0, to |-> "none", flash |-> "none", cart_count |-> 0]

\* redirect(url_for(to)) after flash(msg)
Redirect(to, msg) == [status |-> 302, to |-> to, flash |-> msg, cart_count |-> 0]

\* inject_cart_count(): the stored quantities are integers, so int(q) does not
\* raise and the count is their sum
inject_cart_count(c) == SumValues(c)

\* render_template(t): the page shows the count of inject_cart_count
Render(t) ==
    [status |-> 200, to |-> t, flash |-> "none",
     cart_count |-> inject_cart_count(cart)]

\* jsonify({"ok": True, "cart_count": n})
Json(n) == [status |-> 200, to |-> "json", flash |-> "none", cart_count |-> n]

\* an exception left the handler: Flask answers 500
ServerError == [status |-> 500, to |-> "none", flash |-> "none", cart_count |-> 0]

\* the forms a client may post to /update-cart: no field, one field or two
Forms ==
    UNION { [ks -> RawVals] : ks \in { {a, b} : a, b \in FormKeys } \cup { {} } }

\* two requests of one session that may overlap
Requests == {"first", "second"}

\* a request that has not been sent
NoInflight == [pc |-> "none", handler |-> "none", local |-> EmptyCart]

Init ==
    /\ cart = EmptyCart
    /\ config \in [ {"TELEGRAM_BOT_TOKEN", "TELEGRAM_CHAT_ID", "MAIL_USERNAME"}
                      -> BOOLEAN ]
    /\ pc = "idle"
    /\ req = NoReq
    /\ items = <<>>
    /\ subtotal = 0
    /\ tg_ok = FALSE
    /\ mail_ok = FALSE
    /\ pushNet = NoPost
    /\ mailNet = "none"
    /\ log = <<>>
    /\ resp = NoResp
    /\ amounts = <<>>
    /\ inflight = [r \in Requests |-> NoInflight]
    /\ writes = <<>>

locals == <<items, subtotal, tg_ok, mail_ok, pushNet, mailNet>>

----------------------------------------------------------------------------
(* /add-to-cart *)

\* variant of Get: the stored value is ignored
GetDefault(d, k, default) == default

\* d.get(k, default)
Get(d, k, default) == IF k \in DOMAIN d THEN d[k] ELSE default

\* cart_count of add_to_cart: the sum of the quantities q with str(q).isdigit()
add_cart_count(c) ==
    SumValues([pid \in DOMAIN c |-> IF IsDigit(Str(c[pid])) THEN c[pid] ELSE 0])

\* the whole handler; qty is the posted field, or "absent" for the default;
\* xhr: the request asks for JSON
add_to_cart(pid, qty, xhr) ==
    /\ pc = "idle"
    /\ LET raw == IF qty = <<"absent">> THEN <<"1">> ELSE qty
           new == Put(cart, pid, Get(cart, pid, 0) + IntOf(raw))
       IN  IF ~IntOk(raw)
           THEN /\ cart' = cart
                /\ resp' = ServerError
           ELSE /\ Get(cart, pid, 0) + IntOf(raw) \in (0 - MaxQty)..MaxQty
                /\ cart' = new
                /\ resp' = IF xhr THEN Json(add_cart_count(new))
                           ELSE Redirect("products", "Item added to cart.")
    /\ req' = [Request("add_to_cart", "POST") EXCEPT
                  !.product_id = pid, !.qty = qty, !.xhr = xhr]
    /\ pc' = "done"
    /\ log' = <<>>
    /\ UNCHANGED <<config, locals, aside>>

----------------------------------------------------------------------------
(* /update-cart *)

\* variant of UpdatedCart: the posted quantities are written into the session's
\* cart instead of a new dictionary
UpdatedCartMerge(form) ==
    LET kept == { key \in DOMAIN form :
                    /\ StartsWithQty(key)
                    /\ IntOk(form[key])
                    /\ Max0(IntOf(form[key])) > 0 }
        pids == { StripQty(key) : key \in kept }
    IN  [pid \in DOMAIN cart \cup pids |->
           IF pid \in pids
           THEN Max0(IntOf(form[CHOOSE key \in kept : StripQty(key) = pid]))
           ELSE cart[pid]]

\* the dictionary update_cart builds from the posted form
UpdatedCart(form) ==
    LET kept == { key \in DOMAIN form :
                    /\ StartsWithQty(key)
                    /\ IntOk(form[key])
                    /\ Max0(IntOf(form[key])) > 0 }
        pids == { StripQty(key) : key \in kept }
    IN  [pid \in pids |->
           Max0(IntOf(form[CHOOSE key \in kept : StripQty(key) = pid]))]

update_cart(form) ==
    /\ pc = "idle"
    /\ cart' = UpdatedCart(form)
    /\ req' = [Request("update_cart", "POST") EXCEPT !.form = form]
    /\ resp' = Redirect("cart", "Cart updated.")
    /\ pc' = "done"
    /\ log' = <<>>
    /\ UNCHANGED <<config, locals, aside>>

----------------------------------------------------------------------------
(* The two notification calls, shared by /checkout and /contact *)

\* the call of send_telegram: requests.post is reached only when the token
\* and the chat id are set, and then does whatever the network does
call_send_telegram ==
    IF TelegramConfigured
    THEN \E net \in PostOutcomes :
            /\ pushNet' = net
            /\ tg_ok' = send_telegram(net)
            /\ log' = log \o <<"send_telegram", "requests.post">>
    ELSE /\ pushNet' = NoPost
         /\ tg_ok' = send_telegram(NoPost)
         /\ log' = Append(log, "send_telegram")

\* mail.send is reached by send_invoice_email
InvoiceMailSends == config.MAIL_USERNAME

\* mail.send is reached by send_contact_ack
AckMailSends(to_email) == Len(to_email) > 0 /\ config.MAIL_USERNAME

----------------------------------------------------------------------------
(* /cart *)

cart_view ==
    /\ pc = "idle"
    /\ resp' = IF cart_items(cart).raised THEN ServerError ELSE Render("cart.html")
    /\ req' = Request("cart", "GET")
    /\ pc' = "done"
    /\ log' = <<"cart_items">>
    /\ UNCHANGED <<cart, config, locals, aside>>

----------------------------------------------------------------------------
(* /checkout *)

\* a GET or POST request enters the handler
checkout_request(method) ==
    /\ pc = "idle"
    /\ req' = Request("checkout", method)
    /\ pc' = "checkout_resolve"
    /\ log' = <<>>
    /\ resp' = NoResp
    /\ UNCHANGED <<cart, config, locals, aside>>

\* items, subtotal = cart_items(); a GET renders the page, a POST goes on to
\* build the order text
checkout_resolve ==
    /\ pc = "checkout_resolve"
    /\ log' = Append(log, "cart_items")
    /\ LET r == cart_items(cart)
       IN  IF r.raised
           THEN /\ resp' = ServerError
                /\ pc' = "done"
                /\ UNCHANGED <<items, subtotal>>
           ELSE /\ items' = r.items
                /\ subtotal' = r.subtotal
                /\ IF req.method = "POST"
                   THEN pc' = "checkout_push" /\ resp' = resp
                   ELSE pc' = "done" /\ resp' = Render("checkout.html")
    /\ UNCHANGED <<cart, config, req, tg_ok, mail_ok, pushNet, mailNet, aside>>

\* send_telegram("\n".join(order_text))
checkout_push ==
    /\ pc = "checkout_push"
    /\ call_send_telegram
    /\ pc' = "checkout_email"
    /\ UNCHANGED <<cart, config, req, items, subtotal, mail_ok, mailNet, resp, aside>>

\* variant of checkout_email: the e-mail is a fallback, sent only when the
\* Telegram message was not
checkout_email_fallback ==
    /\ pc = "checkout_email"
    /\ IF tg_ok
       THEN /\ mailNet' = "none"
            /\ mail_ok' = FALSE
            /\ log' = log
       ELSE IF InvoiceMailSends
       THEN \E net \in MailOutcomes :
               /\ mailNet' = net
               /\ mail_ok' = send_invoice_email(net)
               /\ log' = log \o <<"send_invoice_email", "mail.send">>
       ELSE /\ mailNet' = "none"
            /\ mail_ok' = send_invoice_email("none")
            /\ log' = Append(log, "send_invoice_email")
    /\ pc' = "checkout_clear"
    /\ UNCHANGED <<cart, config, req, items, subtotal, tg_ok, pushNet, resp, aside>>

\* send_invoice_email(customer, items, subtotal)
checkout_email ==
    /\ pc = "checkout_email"
    /\ IF InvoiceMailSends
       THEN \E net \in MailOutcomes :
               /\ mailNet' = net
               /\ mail_ok' = send_invoice_email(net)
               /\ log' = log \o <<"send_invoice_email", "mail.send">>
       ELSE /\ mailNet' = "none"
            /\ mail_ok' = send_invoice_email("none")
            /\ log' = Append(log, "send_invoice_email")
    /\ pc' = "checkout_clear"
    /\ UNCHANGED <<cart, config, req, items, subtotal, tg_ok, pushNet, resp, aside>>

\* variant of checkout_clear: the cart is kept when no notification went out
checkout_clear_if_notified ==
    /\ pc = "checkout_clear"
    /\ cart' = IF tg_ok \/ mail_ok THEN EmptyCart ELSE cart
    /\ log' = Append(log, "clear")
    /\ resp' = Redirect("checkout_success",
                        "Checkout successful! Thanks for your order.")
    /\ pc' = "done"
    /\ UNCHANGED <<config, req, locals, aside>>

\* session["cart"] = {}; flash; redirect
checkout_clear ==
    /\ pc = "checkout_clear"
    /\ cart' = EmptyCart
    /\ log' = Append(log, "clear")
    /\ resp' = Redirect("checkout_success",
                        "Checkout successful! Thanks for your order.")
    /\ pc' = "done"
    /\ UNCHANGED <<config, req, locals, aside>>

----------------------------------------------------------------------------
(* /contact *)

\* a GET renders the form; a POST strips the fields and builds the text
contact_request(method, email) ==
    /\ pc = "idle"
    /\ log' = <<>>
    /\ IF method = "POST"
       THEN /\ req' = [Request("contact", "POST") EXCEPT !.email = Strip(email)]
            /\ pc' = "contact_push"
            /\ resp' = NoResp
       ELSE /\ req' = Request("contact", "GET")
            /\ pc' = "done"
            /\ resp' = Render("contact.html")
    /\ UNCHANGED <<cart, config, locals, aside>>

\* tg_ok = send_telegram(tg_text)
contact_push ==
    /\ pc = "contact_push"
    /\ call_send_telegram
    /\ pc' = "contact_ack"
    /\ UNCHANGED <<cart, config, req, items, subtotal, mail_ok, mailNet, resp, aside>>

\* ack_ok = send_contact_ack(email, name, message)
contact_ack ==
    /\ pc = "contact_ack"
    /\ IF AckMailSends(req.email)
       THEN \E net \in MailOutcomes :
               /\ mailNet' = net
               /\ mail_ok' = send_contact_ack(req.email, net)
               /\ log' = log \o <<"send_contact_ack", "mail.send">>
       ELSE /\ mailNet' = "none"
            /\ mail_ok' = send_contact_ack(req.email, "none")
            /\ log' = Append(log, "send_contact_ack")
    /\ pc' = "contact_flash"
    /\ UNCHANGED <<cart, config, req, items, subtotal, tg_ok, pushNet, resp, aside>>

\* variant of contact_flash: the message counts as sent only when both calls
\* returned true
contact_flash_both ==
    /\ pc = "contact_flash"
    /\ resp' = Redirect("contact",
                        IF tg_ok /\ mail_ok
                        THEN "Thanks! Your message was sent."
                        ELSE "Message received, but notifications are not configured.")
    /\ pc' = "done"
    /\ UNCHANGED <<cart, config, req, locals, log, aside>>

\* variant of contact_flash: the handler also empties the cart, as checkout does
contact_flash_clears ==
    /\ pc = "contact_flash"
    /\ resp' = Redirect("contact",
                        IF tg_ok \/ mail_ok
                        THEN "Thanks! Your message was sent."
                        ELSE "Message received, but notifications are not configured.")
    /\ cart' = EmptyCart
    /\ pc' = "done"
    /\ UNCHANGED <<config, req, locals, log, aside>>

\* the flash message chosen from tg_ok or ack_ok, then the redirect
contact_flash ==
    /\ pc = "contact_flash"
    /\ resp' = Redirect("contact",
                        IF tg_ok \/ mail_ok
                        THEN "Thanks! Your message was sent."
                        ELSE "Message received, but notifications are not configured.")
    /\ pc' = "done"
    /\ UNCHANGED <<cart, config, req, locals, log, aside>>

----------------------------------------------------------------------------
(* End of a request: its locals and its response are gone *)

request_end ==
    /\ pc = "done"
    /\ pc' = "idle"
    /\ req' = NoReq
    /\ items' = <<>>
    /\ subtotal' = 0
    /\ tg_ok' = FALSE
    /\ mail_ok' = FALSE
    /\ pushNet' = NoPost
    /\ mailNet' = "none"
    /\ log' = <<>>
    /\ resp' = NoResp
    /\ UNCHANGED <<cart, config, aside>>

----------------------------------------------------------------------------

Next ==
    \/ \E pid \in Pids, qty \in RawVals \cup {<<"absent">>}, xhr \in BOOLEAN :
          add_to_cart(pid, qty, xhr)
    \/ \E form \in Forms : update_cart(form)
    \/ cart_view
    \/ \E method \in {"GET", "POST"} : checkout_request(method)
    \/ checkout_resolve
    \/ checkout_push
    \/ checkout_email
    \/ checkout_clear
    \/ \E method \in {"GET", "POST"}, email \in RawEmails :
          contact_request(method, email)
    \/ contact_push
    \/ contact_ack
    \/ contact_flash
    \/ request_end

Spec == Init /\ [][Next]_vars

----------------------------------------------------------------------------
(* Pricing runs: _money applied to an amount, then to its own result *)

\* the variables of the request handling, which a pricing run leaves alone
handling == <<cart, config, pc, req, items, subtotal, tg_ok, mail_ok,
              pushNet, mailNet, log, resp>>

\* the application with no setting set and no request being handled
Created ==
    /\ config = [k \in {"TELEGRAM_BOT_TOKEN", "TELEGRAM_CHAT_ID", "MAIL_USERNAME"}
                   |-> FALSE]
    /\ pc = "idle"
    /\ req = NoReq
    /\ items = <<>>
    /\ subtotal = 0
    /\ tg_ok = FALSE
    /\ mail_ok = FALSE
    /\ pushNet = NoPost
    /\ mailNet = "none"
    /\ log = <<>>
    /\ resp = NoResp

MoneyInit ==
    /\ Created
    /\ cart = EmptyCart
    /\ amounts \in { <<x>> : x \in (0 - MaxAmount)..MaxAmount }
    /\ inflight = [r \in Requests |-> NoInflight]
    /\ writes = <<>>

\* _money(x), then _money of that result
money_step ==
    /\ Len(amounts) < 3
    /\ amounts' = Append(amounts, _money(amounts[Len(amounts)]))
    /\ UNCHANGED <<handling, inflight, writes>>

MoneyNext == money_step

SpecMoney == MoneyInit /\ [][MoneyNext]_vars

----------------------------------------------------------------------------
(* Overlapping requests of one session.  Each handler works on its own copy   *)
(* of the session cart (the one its request carried) and stores the cart it  *)
(* built with session["cart"] = ...; nothing locks the session between the   *)
(* two.                                                                      *)

\* carts the session may hold when the two requests are sent
RaceCarts == { EmptyCart, Put(EmptyCart, <<"1">>, 1) }

\* the forms of at most one field
RaceForms == { f \in Forms : Cardinality(DOMAIN f) <= 1 }

RaceInit ==
    /\ Created
    /\ cart \in RaceCarts
    /\ amounts = <<>>
    /\ inflight = [r \in Requests |-> NoInflight]
    /\ writes = <<>>

\* add_to_cart up to cart[pid] = cart.get(pid, 0) + qty, on its own copy
race_add_read(r, pid, qty) ==
    /\ inflight[r].pc = "none"
    /\ IntOk(qty)
    /\ Get(cart, pid, 0) + IntOf(qty) \in (0 - MaxQty)..MaxQty
    /\ inflight' = [inflight EXCEPT ![r] =
                      [pc |-> "built", handler |-> "add_to_cart",
                       local |-> Put(cart, pid, Get(cart, pid, 0) + IntOf(qty))]]
    /\ UNCHANGED <<handling, amounts, writes>>

\* update_cart up to the end of its loop: the new dictionary is built
race_update_build(r, form) ==
    /\ inflight[r].pc = "none"
    /\ inflight' = [inflight EXCEPT ![r] =
                      [pc |-> "built", handler |-> "update_cart",
                       local |-> UpdatedCart(form)]]
    /\ UNCHANGED <<handling, amounts, writes>>

\* checkout POST up to the two notification calls: it has read the cart and
\* will store {}
race_checkout_read(r) ==
    /\ inflight[r].pc = "none"
    /\ ~cart_items(cart).raised
    /\ inflight' = [inflight EXCEPT ![r] =
                      [pc |-> "built", handler |-> "checkout", local |-> EmptyCart]]
    /\ UNCHANGED <<handling, amounts, writes>>

\* variant of race_write: the stored cart is updated key by key
race_write_merge(r) ==
    /\ inflight[r].pc = "built"
    /\ cart' = [pid \in DOMAIN cart \cup DOMAIN inflight[r].local |->
                  IF pid \in DOMAIN inflight[r].local
                  THEN inflight[r].local[pid] ELSE cart[pid]]
    /\ inflight' = [inflight EXCEPT ![r].pc = "stored"]
    /\ writes' = Append(writes, r)
    /\ UNCHANGED <<config, pc, req, locals, log, resp, amounts>>

\* session["cart"] = cart
race_write(r) ==
    /\ inflight[r].pc = "built"
    /\ cart' = inflight[r].local
    /\ inflight' = [inflight EXCEPT ![r].pc = "stored"]
    /\ writes' = Append(writes, r)
    /\ UNCHANGED <<config, pc, req, locals, log, resp, amounts>>

RaceNext ==
    \/ \E r \in Requests, pid \in Pids, qty \in RawVals : race_add_read(r, pid, qty)
    \/ \E r \in Requests, form \in RaceForms : race_update_build(r, form)
    \/ \E r \in Requests : race_checkout_read(r)
    \/ \E r \in Requests : race_write(r)

SpecRace == RaceInit /\ [][RaceNext]_vars

----------------------------------------------------------------------------
(* Vocabulary of the properties *)

InLog(e) == \E i \in 1..Len(log) : log[i] = e

\* the handler h has just finished a request with method m
Finished(h, m) == pc = "done" /\ req.handler = h /\ req.method = m

\* the handler returned a response (no exception left it)
Returned == resp.status \in {200, 302}

CheckoutSuccess ==
    Redirect("checkout_success", "Checkout successful! Thanks for your order.")

\* the checkout POST has made its send_telegram call
CheckoutPushed ==
    \/ pc \in {"checkout_email", "checkout_clear"}
    \/ Finished("checkout", "POST") /\ Returned

\* the checkout POST has made its send_invoice_email call
CheckoutMailed ==
    \/ pc = "checkout_clear"
    \/ Finished("checkout", "POST") /\ Returned

\* the contact POST has made its send_telegram call
ContactPushed ==
    \/ pc \in {"contact_ack", "contact_flash"}
    \/ Finished("contact", "POST")

\* the contact POST has made its send_contact_ack call
ContactMailed ==
    \/ pc = "contact_flash"
    \/ Finished("contact", "POST")

\* the cart key pid names a product of the catalog
InCatalog(pid) == IntOk(pid) /\ \E i \in 1..Len(PRODUCTS) : PRODUCTS[i].id = IntOf(pid)

----------------------------------------------------------------------------
(* C1 *)

\* C1: every quantity stored in the session cart is strictly greater than 0,
\* whatever sequence of add, update-cart and checkout requests was handled.
C1_QuantitiesPositive == \A pid \in DOMAIN cart : cart[pid] > 0

----------------------------------------------------------------------------
(* C2 *)

\* C2: when a checkout POST has returned, the session cart is empty, whatever
\* the two notification calls returned.
C2_CheckoutClearsCart ==
    (Finished("checkout", "POST") /\ Returned) => cart = EmptyCart

\* a checkout of a priced cart returned although the Telegram post got an
\* error status and mail.send raised
C2_Witness ==
    /\ Finished("checkout", "POST") /\ Returned
    /\ DOMAIN items # {}
    /\ pushNet.attempted /\ ~tg_ok
    /\ mailNet = "raised" /\ ~mail_ok
    /\ cart = EmptyCart

----------------------------------------------------------------------------
(* C3 *)

\* C3: in checkout and in contact both notification functions are called,
\* the e-mail one whatever send_telegram returned; whether mail.send is
\* reached and what the e-mail call returns depend on the mail setting, the
\* recipient and mail.send alone, and what send_telegram returns depends on
\* the Telegram settings and requests.post alone.
C3_ChannelsIndependent ==
    /\ CheckoutPushed => InLog("send_telegram")
    /\ ContactPushed => InLog("send_telegram")
    /\ (CheckoutPushed \/ ContactPushed) =>
          /\ pushNet.attempted = (config.TELEGRAM_BOT_TOKEN /\ config.TELEGRAM_CHAT_ID)
          /\ tg_ok => (pushNet.attempted /\ ~pushNet.raised)
    /\ CheckoutMailed =>
          /\ InLog("send_telegram") /\ InLog("send_invoice_email")
          /\ (mailNet # "none") = config.MAIL_USERNAME
          /\ mail_ok = (mailNet = "sent")
    /\ ContactMailed =>
          /\ InLog("send_telegram") /\ InLog("send_contact_ack")
          /\ (mailNet # "none") = (config.MAIL_USERNAME /\ Len(req.email) > 0)
          /\ mail_ok = (mailNet = "sent")

\* a checkout whose Telegram message went out and whose e-mail was attempted
\* and failed
C3_Witness ==
    /\ Finished("checkout", "POST") /\ Returned
    /\ tg_ok /\ ~mail_ok /\ mailNet = "raised"

\* a contact submission whose Telegram post failed and whose e-mail went out
C3_WitnessMailOnly ==
    /\ Finished("contact", "POST")
    /\ ~tg_ok /\ pushNet.raised /\ mail_ok

----------------------------------------------------------------------------
(* C4 *)

\* C4: no exception leaves the checkout or the contact handler: every POST
\* they handle ends with a response of the handler.
C4_NoErrorEscapes ==
    (pc = "done" /\ req.handler \in {"checkout", "contact"} /\ req.method = "POST")
        => Returned

----------------------------------------------------------------------------
(* C5 *)

\* C5: a channel whose setting is missing returns false and reaches neither
\* requests.post nor mail.send; with no channel set a checkout ends normally
\* with both results false.
C5_UnconfiguredSoftSkip ==
    /\ ((CheckoutPushed \/ ContactPushed)
          /\ (~config.TELEGRAM_BOT_TOKEN \/ ~config.TELEGRAM_CHAT_ID))
        => (~tg_ok /\ ~pushNet.attempted /\ ~InLog("requests.post"))
    /\ ((CheckoutMailed \/ ContactMailed) /\ ~config.MAIL_USERNAME)
        => (~mail_ok /\ mailNet = "none" /\ ~InLog("mail.send"))

\* a checkout that ended with no Telegram chat id and no mail user set
C5_Witness ==
    /\ Finished("checkout", "POST") /\ Returned
    /\ config.TELEGRAM_BOT_TOKEN /\ ~config.TELEGRAM_CHAT_ID
    /\ ~config.MAIL_USERNAME
    /\ ~tg_ok /\ ~mail_ok
    /\ log = <<"cart_items", "send_telegram", "send_invoice_email", "clear">>

----------------------------------------------------------------------------
(* C6 *)

\* C6: send_telegram returns true exactly when the channel is configured,
\* requests.post raised nothing and the response status is a 2xx.
C6_TrueOnlyOn2xx ==
    (CheckoutPushed \/ ContactPushed) =>
        tg_ok = ( /\ config.TELEGRAM_BOT_TOKEN /\ config.TELEGRAM_CHAT_ID
                  /\ pushNet.attempted /\ ~pushNet.raised
                  /\ pushNet.status \in 200..299 )

----------------------------------------------------------------------------
(* C7 *)

\* C7: after update-cart the cart holds exactly the product ids posted with
\* a value that parses as an integer greater than 0, each with that integer;
\* ids posted with 0, a negative or an unparseable value, and ids of the
\* previous cart that were not posted, are absent.
C7_ReplaceAllIsFullReplacement ==
    Finished("update_cart", "POST") =>
        \A pid \in Pids \cup DOMAIN cart :
            LET key == <<QtyPrefix>> \o pid
                posted == /\ key \in DOMAIN req.form
                          /\ IntOk(req.form[key])
                          /\ IntOf(req.form[key]) > 0
            IN  /\ (pid \in DOMAIN cart) = posted
                /\ posted => cart[pid] = IntOf(req.form[key])

\* an update that posted one positive and one negative quantity
C7_Witness ==
    /\ Finished("update_cart", "POST")
    /\ req.form = [k \in {<<QtyPrefix, "1">>, <<QtyPrefix, "9">>} |->
                     IF k = <<QtyPrefix, "1">> THEN <<"2">> ELSE <<"-", "1">>]
    /\ DOMAIN cart = {<<"1">>}
    /\ cart[<<"1">>] = 2

----------------------------------------------------------------------------
(* C8 *)

\* C8: cart_items never raises: it returns one line item for every cart
\* entry whose product id is in the catalog, none for the other entries, and
\* leaves the cart as it was.
C8_ResolveDropsUnknown ==
    /\ InLog("cart_items") => resp # ServerError
    /\ pc \in {"checkout_push", "checkout_email", "checkout_clear"} =>
          DOMAIN items = { pid \in DOMAIN cart : InCatalog(pid) }

----------------------------------------------------------------------------
(* C9 *)

\* the state of the checkout attempt in progress, in the words of the design
CheckoutState ==
    CASE pc = "checkout_resolve" -> "Resolving"
      [] pc \in {"checkout_push", "checkout_email", "checkout_clear"} -> "Notifying"
      [] Finished("checkout", "POST") /\ resp = CheckoutSuccess /\ cart = EmptyCart
           -> "Cleared"
      [] OTHER -> "none"

\* the calls of a checkout attempt that went through every state in order
CheckoutRuns ==
    { <<"cart_items">> \o p \o m \o <<"clear">> :
        p \in { <<"send_telegram">>, <<"send_telegram", "requests.post">> },
        m \in { <<"send_invoice_email">>, <<"send_invoice_email", "mail.send">> } }

\* C9: every checkout POST ends in the state Cleared, having resolved the
\* cart first, then called each channel once, then cleared the cart.
C9_AttemptReachesCleared ==
    Finished("checkout", "POST") =>
        (CheckoutState = "Cleared" /\ log \in CheckoutRuns)

----------------------------------------------------------------------------
(* C10 *)

\* C10: every submitted checkout is reported as successful; when no channel
\* is configured, or both calls return false, the cart is cleared as well.
C10_AlwaysReportedSuccessful ==
    Finished("checkout", "POST") =>
        /\ resp = CheckoutSuccess
        /\ (~tg_ok /\ ~mail_ok) => cart = EmptyCart

----------------------------------------------------------------------------
(* C11 *)

\* the contact handler told the user that the message was sent
ContactSent == resp.flash = "Thanks! Your message was sent."

\* C11: a contact submission reports "sent" exactly when the Telegram call or
\* the acknowledgment e-mail returned true, and the neutral "received"
\* message only when both returned false.
C11_SentIsPushOrAck ==
    Finished("contact", "POST") =>
        /\ ContactSent = (tg_ok \/ mail_ok)
        /\ ~ContactSent =>
              resp.flash = "Message received, but notifications are not configured."

\* only Telegram is configured, its post succeeded, no e-mail went out, and
\* the submission is reported as sent
C11_Witness ==
    /\ Finished("contact", "POST")
    /\ config.TELEGRAM_BOT_TOKEN /\ config.TELEGRAM_CHAT_ID /\ ~config.MAIL_USERNAME
    /\ Len(req.email) > 0
    /\ pushNet.status = 200 /\ tg_ok /\ ~mail_ok /\ mailNet = "none"
    /\ ContactSent

----------------------------------------------------------------------------
(* C12 *)

\* the catalog price of the product the cart key pid names
PriceOf(pid) ==
    (CHOOSE p \in { PRODUCTS[i] : i \in 1..Len(PRODUCTS) } : p.id = IntOf(pid)).price

\* the cart keys that name a product of the catalog
PricedKeys == { pid \in DOMAIN cart : InCatalog(pid) }

RECURSIVE SumOfRounded(_)
\* the sum over the keys S of the rounded products price * quantity
SumOfRounded(S) ==
    IF S = {} THEN 0
    ELSE LET pid == CHOOSE pid \in S : TRUE
         IN  _money(PriceOf(pid) * cart[pid]) + SumOfRounded(S \ {pid})

RECURSIVE SumOfRaw(_)
\* the sum over the keys S of the unrounded products price * quantity
SumOfRaw(S) ==
    IF S = {} THEN 0
    ELSE LET pid == CHOOSE pid \in S : TRUE
         IN  PriceOf(pid) * cart[pid] + SumOfRaw(S \ {pid})

\* checkout holds the result of cart_items and the cart is still the one it
\* was computed from
Resolved ==
    \/ pc \in {"checkout_push", "checkout_email", "checkout_clear"}
    \/ Finished("checkout", "GET") /\ Returned

\* C12: every line total is the rounded product price * quantity, and the
\* subtotal is the rounding of the sum of these rounded line totals.
C12_SubtotalOfRoundedLines ==
    Resolved =>
        /\ \A pid \in DOMAIN items :
              items[pid].line_total = _money(PriceOf(pid) * cart[pid])
        /\ subtotal = _money(SumOfRounded(PricedKeys))

\* two priced lines whose subtotal differs from the rounded unrounded sum
C12_Witness ==
    /\ Resolved
    /\ Cardinality(DOMAIN items) = 2
    /\ subtotal = _money(SumOfRounded(PricedKeys))
    /\ subtotal # _money(SumOfRaw(PricedKeys))

----------------------------------------------------------------------------
(* C13 *)

\* the step is a request to /add-to-cart that the handler answered
AddStep == pc = "idle" /\ req'.handler = "add_to_cart" /\ resp'.status # 500

\* C13: add_to_cart stores, for the posted product id, its previous quantity
\* (0 when absent) plus the posted quantity (1 when none is posted), and
\* changes the quantity of no other product id.
C13_AddIsAdditiveMerge ==
    [][ AddStep =>
          /\ DOMAIN cart' = DOMAIN cart \cup {req'.product_id}
          /\ cart'[req'.product_id] =
                (IF req'.product_id \in DOMAIN cart THEN cart[req'.product_id] ELSE 0)
                + (IF req'.qty = <<"absent">> THEN 1 ELSE IntOf(req'.qty))
          /\ \A pid \in DOMAIN cart \ {req'.product_id} : cart'[pid] = cart[pid]
      ]_vars

\* an add of 2 onto a stored -1, with another product id in the cart
C13_Witness ==
    /\ Finished("add_to_cart", "POST") /\ Returned
    /\ req.qty = <<"2">>
    /\ cart[req.product_id] = 1
    /\ DOMAIN cart # {req.product_id}

\* an add with no qty field onto an absent or zero entry
C13_WitnessDefault ==
    /\ Finished("add_to_cart", "POST") /\ Returned
    /\ req.qty = <<"absent">>
    /\ cart[req.product_id] = 1

----------------------------------------------------------------------------
(* C15 *)

RECURSIVE TotalQuantity(_)
\* the sum of the quantities stored under the keys S
TotalQuantity(S) ==
    IF S = {} THEN 0
    ELSE LET pid == CHOOSE pid \in S : TRUE
         IN  cart[pid] + TotalQuantity(S \ {pid})

\* C15: the count shown on a rendered page and the count add_to_cart returns
\* are both the sum of the quantities stored in the cart.
C15_CountsAreTheTotal ==
    /\ (pc = "done" /\ resp.status = 200 /\ resp.to # "json") =>
          resp.cart_count = TotalQuantity(DOMAIN cart)
    /\ (Finished("add_to_cart", "POST") /\ resp.to = "json") =>
          resp.cart_count = TotalQuantity(DOMAIN cart)

----------------------------------------------------------------------------
(* C17 *)

\* C17: a checkout POST on a cart with no entry, or with entries for unknown
\* product ids only, calls both channels with no line item and subtotal 0,
\* clears the cart and reports success.
C17_CheckoutWithoutItems ==
    ( /\ Finished("checkout", "POST")
      /\ DOMAIN items = {}
      /\ \A pid \in DOMAIN cart : ~InCatalog(pid) )
    => /\ resp = CheckoutSuccess
       /\ subtotal = 0
       /\ InLog("send_telegram") /\ InLog("send_invoice_email")
       /\ cart = EmptyCart

----------------------------------------------------------------------------
(* C18 *)

\* the request being handled is one that only reads the cart
ReadOnlyRequest(r) ==
    \/ r.handler \in {"contact", "cart"}
    \/ r.handler = "checkout" /\ r.method = "GET"

\* C18: a contact request, a view of the cart and a GET of the checkout page
\* leave the session cart as it is, and the two GET views call no
\* notification function.
C18_OnlyCartWritersChangeCart ==
    /\ [][ReadOnlyRequest(req') => cart' = cart]_vars
    /\ []( (req.handler = "cart" \/ (req.handler = "checkout" /\ req.method = "GET"))
             => ( /\ ~InLog("send_telegram") /\ ~InLog("send_invoice_email")
                  /\ ~pushNet.attempted /\ mailNet = "none" ) )

\* a contact submission whose two notifications went out over a non-empty cart
C18_Witness ==
    /\ Finished("contact", "POST")
    /\ tg_ok /\ mail_ok
    /\ DOMAIN cart # {}

----------------------------------------------------------------------------
(* C14 *)

Abs(n) == IF n < 0 THEN 0 - n ELSE n

\* C14: _money(x) has two fraction digits, is a nearest such amount to x and,
\* when x lies halfway between two, the one away from zero (10.005 gives
\* 10.01, 10.004 gives 10.00); rounding the result again changes nothing.
C14_HalfUpAndIdempotent ==
    /\ Len(amounts) >= 2 =>
          /\ amounts[2] % 10 = 0
          /\ Abs(amounts[2] - amounts[1]) <= 5
          /\ Abs(amounts[2] - amounts[1]) = 5 => Abs(amounts[2]) > Abs(amounts[1])
          /\ amounts[1] = 10005 => amounts[2] = 10010
          /\ amounts[1] = 10004 => amounts[2] = 10000
    /\ Len(amounts) = 3 => amounts[3] = amounts[2]

\* 10.005 rounded to 10.01 and rounded again
C14_Witness == amounts = <<10005, 10010, 10010>>

----------------------------------------------------------------------------
(* C16 *)

\* C16: once a request has stored the session cart, the cart is exactly the
\* one built by the request that stored last, whatever the other request had
\* stored before.
C16_LastWriterWins ==
    writes # <<>> => cart = inflight[writes[Len(writes)]].local

\* two adds of different products that both started from the empty cart: the
\* cart holds only the product of the one that stored last
C16_Witness ==
    /\ Len(writes) = 2
    /\ inflight["first"].handler = "add_to_cart"
    /\ inflight["second"].handler = "add_to_cart"
    /\ DOMAIN inflight["first"].local = {<<"1">>}
    /\ DOMAIN inflight["second"].local = {<<"9">>}
    /\ DOMAIN cart = DOMAIN inflight[writes[2]].local

\* an add that read the cart before a checkout stored {} and stored after it
C16_WitnessAddOverCheckout ==
    /\ Len(writes) = 2
    /\ inflight[writes[1]].handler = "checkout"
    /\ inflight[writes[2]].handler = "add_to_cart"
    /\ DOMAIN cart = {<<"1">>, <<"9">>}

====
